---------------------------- MODULE Spec2Model ----------------------------
(***************************************************************************)
(* Model of the expense record store of src/app.py: add_expense,           *)
(* list_expenses, load_expenses, save_expenses, the validators and the     *)
(* identifier generator.                                                   *)
(*                                                                         *)
(* Python str values are sequences of character codes (ASCII), so that     *)
(* strip, split, the lexical comparisons of list_expenses and the          *)
(* formatting of strftime are computed and not assumed.                    *)
(* Python None / int / str / list values are tagged pairs <<tag, data>>.   *)
(***************************************************************************)
EXTENDS Integers, Sequences, FiniteSets, TLC

(***************************************************************************)
(* Bounds of the model.                                                    *)
(***************************************************************************)
\* the clock is read at most MaxClock ticks after the first reading
MaxClock == 1
\* add_expense is started only while fewer than MaxItems entries are
\* persisted or being added, over all users
MaxItems == 2

(***************************************************************************)
(* Text helpers: what str.strip, str.split(","), the comparison of two     *)
(* str and "%0Nd" formatting do.                                           *)
(***************************************************************************)
IsSpace(c) == c \in {9, 10, 11, 12, 13, 32}

IsDigit(c) == c >= 48 /\ c <= 57

RECURSIVE LStrip(_)
LStrip(s) ==
    IF s = <<>> THEN <<>>
    ELSE IF IsSpace(Head(s)) THEN LStrip(Tail(s)) ELSE s

RECURSIVE RStrip(_)
RStrip(s) ==
    IF s = <<>> THEN <<>>
    ELSE IF IsSpace(s[Len(s)]) THEN RStrip(SubSeq(s, 1, Len(s) - 1)) ELSE s

\* str.strip()
Strip(s) == RStrip(LStrip(s))

\* str.split(","): the pieces between commas (code 44), empty pieces kept
RECURSIVE SplitFrom(_, _, _)
SplitFrom(s, i, cur) ==
    IF i > Len(s) THEN <<cur>>
    ELSE IF s[i] = 44 THEN <<cur>> \o SplitFrom(s, i + 1, <<>>)
    ELSE SplitFrom(s, i + 1, Append(cur, s[i]))

SplitComma(s) == SplitFrom(s, 1, <<>>)

\* a < b for two str (code point by code point, a proper prefix is smaller)
RECURSIVE StrLt(_, _)
StrLt(a, b) ==
    IF b = <<>> THEN FALSE
    ELSE IF a = <<>> THEN TRUE
    ELSE IF Head(a) # Head(b) THEN Head(a) < Head(b)
    ELSE StrLt(Tail(a), Tail(b))

StrLe(a, b) == a = b \/ StrLt(a, b)

\* the decimal digits of n, zero-padded on the left to width w
RECURSIVE Pad(_, _)
Pad(n, w) ==
    IF w = 0 THEN <<>> ELSE Append(Pad(n \div 10, w - 1), 48 + (n % 10))

\* the value of a str of decimal digits
RECURSIVE DigitsValue(_)
DigitsValue(s) ==
    IF s = <<>> THEN 0
    ELSE 10 * DigitsValue(SubSeq(s, 1, Len(s) - 1)) + (s[Len(s)] - 48)

AllDigits(s) == \A i \in 1..Len(s) : IsDigit(s[i])

\* Python values
PyNone == <<"none", <<>>>>
PyStr(s) == <<"str", s>>
PyInt(n) == <<"int", n>>
PyList(l) == <<"list", l>>
IsNone(v) == v[1] = "none"
\* truthiness of None, a str, an int or a list
Truthy(v) ==
    CASE v[1] = "none" -> FALSE
      [] v[1] = "str" -> v[2] # <<>>
      [] v[1] = "int" -> v[2] # 0
      [] v[1] = "list" -> v[2] # <<>>

(***************************************************************************)
(* Validation helpers                                                      *)
(***************************************************************************)
IsLeap(y) == (y % 4 = 0 /\ y % 100 # 0) \/ y % 400 = 0

DaysInMonth(y, m) ==
    IF m = 2 THEN (IF IsLeap(y) THEN 29 ELSE 28)
    ELSE IF m \in {4, 6, 9, 11} THEN 30 ELSE 31

\* datetime.date.fromisoformat(s) succeeds, for s of the YYYY-MM-DD shape
\* or of a shape no Python version accepts (the inputs of this model)
FromIsoFormatOk(s) ==
    /\ Len(s) = 10
    /\ s[5] = 45 /\ s[8] = 45
    /\ AllDigits(SubSeq(s, 1, 4)) /\ AllDigits(SubSeq(s, 6, 7))
    /\ AllDigits(SubSeq(s, 9, 10))
    /\ LET y == DigitsValue(SubSeq(s, 1, 4))
           m == DigitsValue(SubSeq(s, 6, 7))
           d == DigitsValue(SubSeq(s, 9, 10))
       IN  y >= 1 /\ m >= 1 /\ m <= 12 /\ d >= 1 /\ d <= DaysInMonth(y, m)

\* validate_date_iso(date_str) returns (TRUE) or raises ValueError (FALSE)
validate_date_iso(date_str) == FromIsoFormatOk(date_str)

\* float(x): <<"num", hundredths>>, <<"nan", 0>>, <<"inf", sign>> or
\* <<"err", 0>> when float raises.  A str is stripped, then read as
\* [+-]digits[.digits], nan or inf; an int converts exactly; None raises.
UnsignedFloat(t) ==
    LET dots == {i \in 1..Len(t) : t[i] = 46}
    IN  IF t = <<110, 97, 110>> THEN <<"nan", 0>>
        ELSE IF t = <<105, 110, 102>> THEN <<"inf", 1>>
        ELSE IF dots = {} THEN
            IF t # <<>> /\ AllDigits(t) THEN <<"num", 100 * DigitsValue(t)>>
            ELSE <<"err", 0>>
        ELSE IF Cardinality(dots) > 1 THEN <<"err", 0>>
        ELSE LET k == CHOOSE i \in dots : TRUE
                 ip == SubSeq(t, 1, k - 1)
                 fp == SubSeq(t, k + 1, Len(t))
             IN  IF AllDigits(ip) /\ AllDigits(fp) /\ Len(ip) + Len(fp) > 0
                    /\ Len(fp) <= 2
                 THEN <<"num", 100 * DigitsValue(ip)
                         + (IF Len(fp) = 1 THEN 10 ELSE 1) * DigitsValue(fp)>>
                 ELSE <<"err", 0>>

Negate(f) ==
    CASE f[1] = "num" -> <<"num", 0 - f[2]>>
      [] f[1] = "inf" -> <<"inf", 0 - f[2]>>
      [] OTHER -> f

float(x) ==
    CASE x[1] = "int" -> <<"num", 100 * x[2]>>
      [] x[1] = "str" ->
            LET t == Strip(x[2])
            IN  IF t = <<>> THEN <<"err", 0>>
                ELSE IF Head(t) = 45 THEN Negate(UnsignedFloat(Tail(t)))
                ELSE IF Head(t) = 43 THEN UnsignedFloat(Tail(t))
                ELSE UnsignedFloat(t)
      [] OTHER -> <<"err", 0>>

\* val <= 0 on floats: every comparison with nan is False
FloatLeZero(val) ==
    CASE val[1] = "num" -> val[2] <= 0
      [] val[1] = "inf" -> val[2] < 0
      [] OTHER -> FALSE

\* validate_amount_positive without the test val <= 0
validate_amount_number(x) ==
    LET val == float(x)
    IN  IF val[1] = "err" THEN <<"raise", val>> ELSE <<"ok", val>>

\* validate_amount_positive(x): <<"ok", val>> or <<"raise", val>>
validate_amount_positive(x) ==
    LET val == float(x)
    IN  IF val[1] = "err" THEN <<"raise", val>>
        ELSE IF FloatLeZero(val) THEN <<"raise", val>>
        ELSE <<"ok", val>>

\* validate_required_text(s, field) returns (TRUE) or raises (FALSE);
\* s is None or a str
validate_required_text(s) ==
    ~ (~Truthy(s) \/ Strip(s[2]) = <<>>)

\* normalize_tags(raw)
RECURSIVE KeepNonBlank(_)
KeepNonBlank(l) ==
    IF l = <<>> THEN <<>>
    ELSE IF Strip(Head(l)) # <<>>
         THEN <<Strip(Head(l))>> \o KeepNonBlank(Tail(l))
         ELSE KeepNonBlank(Tail(l))

normalize_tags(raw) ==
    CASE raw[1] = "list" -> KeepNonBlank(raw[2])
      [] raw[1] = "str" -> KeepNonBlank(SplitComma(raw[2]))
      [] OTHER -> <<>>

(***************************************************************************)
(* The clock read by datetime.date.today() and datetime.datetime.now():    *)
(* a reading is a number of microsecond ticks after ClockBase.  The base   *)
(* is the last microsecond of a day, so that one tick carries through the  *)
(* microsecond, second and day fields.  Nothing makes two readings differ: *)
(* the clock advances by the environment's Tick only.                      *)
(***************************************************************************)
ClockBase == [year |-> 2024, month |-> 1, day |-> 15, sec |-> 86399,
              us |-> 999999]

ClockAt(n) ==
    LET ustot == ClockBase.us + n
        sectot == ClockBase.sec + (ustot \div 1000000)
        daytot == ClockBase.day + (sectot \div 86400)
        dim == DaysInMonth(ClockBase.year, ClockBase.month)
        mtot == IF daytot > dim THEN ClockBase.month + 1 ELSE ClockBase.month
    IN  [year |-> IF mtot > 12 THEN ClockBase.year + 1 ELSE ClockBase.year,
         month |-> IF mtot > 12 THEN 1 ELSE mtot,
         day |-> IF daytot > dim THEN daytot - dim ELSE daytot,
         hour |-> (sectot % 86400) \div 3600,
         minute |-> ((sectot % 86400) % 3600) \div 60,
         second |-> (sectot % 86400) % 60,
         microsecond |-> ustot % 1000000]

\* today_iso(): datetime.date.today().isoformat()
today_iso(n) ==
    LET t == ClockAt(n)
    IN  Pad(t.year, 4) \o <<45>> \o Pad(t.month, 2) \o <<45>> \o Pad(t.day, 2)

\* generate_expense_id(): "exp_" + now.strftime("%Y%m%d_%H%M%S%f")
generate_expense_id(n) ==
    LET t == ClockAt(n)
    IN  <<101, 120, 112, 95>> \o Pad(t.year, 4) \o Pad(t.month, 2)
          \o Pad(t.day, 2) \o <<95>> \o Pad(t.hour, 2) \o Pad(t.minute, 2)
          \o Pad(t.second, 2) \o Pad(t.microsecond, 6)

(***************************************************************************)
(* The persisted document of a user: the file data/<user>/expanses.json.   *)
(* exists: the path exists.  closed: the file holds one complete JSON      *)
(* document, {"expenses": items}.  Otherwise items are the entries of the  *)
(* text written so far and the file does not parse.  size: the length of   *)
(* the file.                                                               *)
(***************************************************************************)
RECURSIVE SumLen(_)
SumLen(l) == IF l = <<>> THEN 0 ELSE Len(Head(l)) + SumLen(Tail(l))

\* the length of repr(float) as json.dump writes it
RECURSIVE NumDigits(_)
NumDigits(n) == IF n < 10 THEN 1 ELSE 1 + NumDigits(n \div 10)

FloatReprLen(v) ==
    CASE v[1] = "nan" -> 3
      [] v[1] = "inf" -> IF v[2] < 0 THEN 9 ELSE 8
      [] OTHER -> LET a == IF v[2] < 0 THEN 0 - v[2] ELSE v[2]
                  IN  (IF v[2] < 0 THEN 1 ELSE 0) + NumDigits(a \div 100) + 1
                        + (IF a % 10 = 0 THEN 1 ELSE 2)

\* the length of one entry as json.dump(..., indent=2) writes it
EntryJsonLen(e) ==
    155 + Len(e.id) + Len(e.date) + FloatReprLen(e.amount) + Len(e.category)
        + Len(e.description) + Len(e.payment_method)
        + (IF e.tags = <<>> THEN 0
           ELSE 6 + SumLen(e.tags) + 12 * Len(e.tags))

RECURSIVE EntriesJsonLen(_)
EntriesJsonLen(items) ==
    IF items = <<>> THEN 0
    ELSE EntryJsonLen(Head(items)) + 2 + EntriesJsonLen(Tail(items))

\* len(json.dumps({"expenses": items}, indent=2))
JsonLen(items) ==
    IF items = <<>> THEN 20 ELSE 22 + EntriesJsonLen(items)

Absent == [exists |-> FALSE, closed |-> FALSE, items |-> <<>>, size |-> 0]

\* the file just after open(path, "w"): created or truncated, nothing written
Truncated == [exists |-> TRUE, closed |-> FALSE, items |-> <<>>, size |-> 0]

Document(items) ==
    [exists |-> TRUE, closed |-> TRUE, items |-> items, size |-> JsonLen(items)]

\* json.dump({"expenses": items}, f) and close, through a handle opened with
\* "w" some time before: the text is written from offset 0 over whatever
\* another handle wrote since; what lies beyond it stays.
DumpOver(f, items) ==
    IF JsonLen(items) >= f.size THEN Document(items)
    ELSE [exists |-> TRUE, closed |-> FALSE, items |-> items, size |-> f.size]

\* the dump stops after the first k entries (a write error, an interruption)
DumpPartial(f, items, k) ==
    LET written == 18 + EntriesJsonLen(SubSeq(items, 1, k))
                     - (IF k = 0 THEN 0 ELSE 2)
    IN  [exists |-> TRUE, closed |-> FALSE, items |-> SubSeq(items, 1, k),
         size |-> IF written >= f.size THEN written ELSE f.size]

(***************************************************************************)
(* list_expenses: the filters and the sort                                 *)
(***************************************************************************)
\* a filters dict: a key that is absent is PyNone, a key that is present
\* is PyStr(text); filters None or {} has every key absent
NoFilters == [from_date |-> PyNone, to_date |-> PyNone, category |-> PyNone]

\* the lower bound taken as exclusive: e["date"] > filters["from_date"]
KeepAfterFromDate(e, from_date) == StrLt(from_date, e.date)

\* e["date"] >= filters["from_date"]
KeepFromDate(e, from_date) == StrLe(from_date, e.date)

\* e["date"] <= filters["to_date"]
KeepToDate(e, to_date) == StrLe(e.date, to_date)

\* e["category"] == filters["category"]
KeepCategory(e, category) == e.category = category

\* the test of the list comprehension for the filter key
Keep(e, key, value) ==
    CASE key = "from_date" -> KeepFromDate(e, value)
      [] key = "to_date" -> KeepToDate(e, value)
      [] key = "category" -> KeepCategory(e, value)

\* [e for e in items if <test for key>]
RECURSIVE Comprehension(_, _, _)
Comprehension(items, key, value) ==
    IF items = <<>> THEN <<>>
    ELSE IF Keep(Head(items), key, value)
         THEN <<Head(items)>> \o Comprehension(Tail(items), key, value)
         ELSE Comprehension(Tail(items), key, value)

ApplyFilters(items, filters) ==
    LET a == IF IsNone(filters.from_date) THEN items
             ELSE Comprehension(items, "from_date", filters.from_date[2])
        b == IF IsNone(filters.to_date) THEN a
             ELSE Comprehension(a, "to_date", filters.to_date[2])
    IN  IF IsNone(filters.category) THEN b
        ELSE Comprehension(b, "category", filters.category[2])

\* the key without its second component: key = lambda e: e["date"]
SortKeyLtDateOnly(a, b) == StrLt(a.date, b.date)

\* key(a) < key(b) for key = lambda e: (e["date"], e["id"])
SortKeyLt(a, b) ==
    StrLt(a.date, b.date) \/ (a.date = b.date /\ StrLt(a.id, b.id))

\* x placed in a list sorted in descending order, after every element whose
\* key is not smaller than its own
RECURSIVE InsertDesc(_, _)
InsertDesc(sorted, x) ==
    IF sorted = <<>> THEN <<x>>
    ELSE IF SortKeyLt(Head(sorted), x) THEN <<x>> \o sorted
    ELSE <<Head(sorted)>> \o InsertDesc(Tail(sorted), x)

\* items.sort(key=..., reverse=True): descending and stable
RECURSIVE SortDesc(_)
SortDesc(items) ==
    IF items = <<>> THEN <<>>
    ELSE InsertDesc(SortDesc(SubSeq(items, 1, Len(items) - 1)),
                    items[Len(items)])

\* what list_expenses returns for the collection load_expenses gave it
list_result(loaded, filters) == SortDesc(ApplyFilters(loaded, filters))

(***************************************************************************)
(* Inputs                                                                  *)
(***************************************************************************)
Users == {"u1", "u2"}

\* the threads or processes that call the store
Procs == {"p1", "p2"}

\* {"amount": 10, "category": "Food"}
BasePayload ==
    [date |-> PyNone, amount |-> PyInt(10),
     category |-> PyStr(<<70, 111, 111, 100>>),
     description |-> PyNone, payment_method |-> PyNone, tags |-> PyNone]

\* {"date": "2024-01-16", "amount": "12.5", "category": "Bills",
\*  "description": "tea", "payment_method": "card", "tags": "a, b ,,c"}
FullPayload ==
    [date |-> PyStr(<<50, 48, 50, 52, 45, 48, 49, 45, 49, 54>>),
     amount |-> PyStr(<<49, 50, 46, 53>>),
     category |-> PyStr(<<66, 105, 108, 108, 115>>),
     description |-> PyStr(<<116, 101, 97>>),
     payment_method |-> PyStr(<<99, 97, 114, 100>>),
     tags |-> PyStr(<<97, 44, 32, 98, 32, 44, 44, 99>>)]

\* {"date": "", "amount": "nan", "category": "Food", "tags": ["x", " y "]}
NanPayload ==
    [date |-> PyStr(<<>>), amount |-> PyStr(<<110, 97, 110>>),
     category |-> PyStr(<<70, 111, 111, 100>>),
     description |-> PyNone, payment_method |-> PyNone,
     tags |-> PyList(<< <<120>>, <<32, 121, 32>> >>)]

\* "2024-02-30", "2023-02-29", "15/01/2024"
BadDates ==
    {PyStr(<<50, 48, 50, 52, 45, 48, 50, 45, 51, 48>>),
     PyStr(<<50, 48, 50, 51, 45, 48, 50, 45, 50, 57>>),
     PyStr(<<49, 53, 47, 48, 49, 47, 50, 48, 50, 52>>)}

\* None, "abc", 0, -5, "-0.5"
BadAmounts ==
    {PyNone, PyStr(<<97, 98, 99>>), PyInt(0), PyInt(-5),
     PyStr(<<45, 48, 46, 53>>)}

\* None, "", "  "
BadCategories == {PyNone, PyStr(<<>>), PyStr(<<32, 32>>)}

\* the payloads add_expense is called with: three that pass validation and
\* the base payload with one field that does not
Payloads ==
    {BasePayload, FullPayload, NanPayload}
      \cup {[BasePayload EXCEPT !.date = d] : d \in BadDates}
      \cup {[BasePayload EXCEPT !.amount = a] : a \in BadAmounts}
      \cup {[BasePayload EXCEPT !.category = c] : c \in BadCategories}

\* the filters list_expenses is called with; the date is "2024-01-16",
\* the category "Food"
FilterInputs ==
    [from_date : {PyNone, PyStr(<<50, 48, 50, 52, 45, 48, 49, 45, 49, 54>>)},
     to_date : {PyNone, PyStr(<<50, 48, 50, 52, 45, 48, 49, 45, 49, 54>>)},
     category : {PyNone, PyStr(<<70, 111, 111, 100>>)}]

(***************************************************************************)
(* State                                                                   *)
(***************************************************************************)
VARIABLES
    now,        \* the clock: ticks after ClockBase
    files,      \* files[u]: the file data/u/expanses.json
    proc,       \* proc[p]: the call process p is in and its local variables
    log         \* the calls of add_expense that returned, in return order

vars == <<now, files, proc, log>>

\* a process outside any call.  loaded: what load_expenses returned;
\* before: the files when the call started; seen: the number of calls of
\* add_expense that had returned when load_expenses read the file; idx: the
\* position of this call in log
Idle ==
    [pc |-> "idle", op |-> "none", user |-> "", payload |-> BasePayload,
     filters |-> NoFilters, date_str |-> <<>>, amount_val |-> <<"err", 0>>,
     desc |-> <<>>, method |-> <<>>, tags |-> <<>>, loaded |-> <<>>,
     items |-> <<>>, eid |-> <<>>, err |-> "", seen |-> 0, idx |-> 0,
     before |-> [u \in Users |-> Absent]]

\* u1 is registered (ensure_user_dir_exists wrote its empty document),
\* u2 has a directory and no document yet
Init ==
    /\ now = 0
    /\ files = [u \in Users |->
                    IF u = "u1" THEN Document(<<>>) ELSE Absent]
    /\ proc = [p \in Procs |-> Idle]
    /\ log = <<>>

\* the calls of add_expense that passed validation and have not ended
Adding == {p \in Procs : proc[p].op = "add"
                          /\ proc[p].pc \notin {"idle", "raised", "returned"}}

(***************************************************************************)
(* load_expenses                                                           *)
(***************************************************************************)
\* the file opened with "w" where "r" is meant
OpenForWrite(f) == Truncated

\* open(path, "r") leaves the file as it is
OpenForRead(f) == f

\* json.load(f) and data.get("expenses", []): <<"ok", items>>, or
\* <<"raise", <<>>>> when the text is no JSON document
JsonLoad(f) == IF f.closed THEN <<"ok", f.items>> ELSE <<"raise", <<>>>>

\* the process goes on with the collection load_expenses returned:
\* add_expense to generate the id, list_expenses to filter, sort and return
Loaded(p, items) ==
    IF proc[p].op = "add"
    THEN [proc EXCEPT ![p].pc = "gen", ![p].loaded = items,
                      ![p].items = items, ![p].seen = Len(log)]
    ELSE [proc EXCEPT ![p].pc = "returned", ![p].loaded = items,
                      ![p].items = list_result(items, proc[p].filters)]

\* load_expenses: os.path.exists(path) is False
LoadAbsent(p) ==
    /\ proc[p].pc = "load"
    /\ ~files[proc[p].user].exists
    /\ proc' = [proc EXCEPT ![p].pc = "load_create"]
    /\ UNCHANGED <<now, files, log>>

\* load_expenses: open(path, "w") creates the file, or truncates the one
\* another process has written since the test
LoadCreate(p) ==
    LET u == proc[p].user
    IN  /\ proc[p].pc = "load_create"
        /\ files' = [files EXCEPT ![u] = Truncated]
        /\ proc' = [proc EXCEPT ![p].pc = "load_dump"]
        /\ UNCHANGED <<now, log>>

\* load_expenses: json.dump({"expenses": []}, f), close and return []
LoadCreateDump(p) ==
    LET u == proc[p].user
    IN  /\ proc[p].pc = "load_dump"
        /\ files' = [files EXCEPT ![u] = DumpOver(files[u], <<>>)]
        /\ proc' = Loaded(p, <<>>)
        /\ UNCHANGED <<now, log>>

\* load_expenses: the path exists, the file is read and parsed
LoadRead(p) ==
    LET u == proc[p].user
        r == JsonLoad(files[u])
    IN  /\ proc[p].pc = "load"
        /\ files[u].exists
        /\ files' = [files EXCEPT ![u] = OpenForRead(files[u])]
        /\ proc' = IF r[1] = "ok" THEN Loaded(p, r[2])
                   ELSE [proc EXCEPT ![p].pc = "raised",
                                     ![p].err = "JSONDecodeError"]
        /\ UNCHANGED <<now, log>>

(***************************************************************************)
(* add_expense                                                             *)
(***************************************************************************)
\* date_str = payload.get("date") or today_iso()
ResolveDate(payload, n) ==
    IF Truthy(payload.date) THEN payload.date[2] ELSE today_iso(n)

\* the ValueError the validation of add_expense raises, "" when it passes
ValidationError(payload, n) ==
    IF ~validate_date_iso(ResolveDate(payload, n)) THEN "date"
    ELSE IF validate_amount_positive(payload.amount)[1] = "raise"
    THEN "amount"
    ELSE IF ~validate_required_text(payload.category) THEN "category"
    ELSE ""

\* payload.get(key, "")
GetOrEmpty(v) == IF IsNone(v) THEN <<>> ELSE v[2]

\* add_expense up to the call of load_expenses: the date is resolved, the
\* fields are validated, the optional fields are read
AddStart(p, u, payload) ==
    LET e == ValidationError(payload, now)
    IN  /\ proc[p].pc = "idle"
        /\ e = "" => Len(log) + Cardinality(Adding) < MaxItems
        /\ proc' = [proc EXCEPT ![p] =
              IF e # ""
              THEN [Idle EXCEPT !.pc = "raised", !.op = "add", !.user = u,
                                !.payload = payload, !.err = e,
                                !.before = files]
              ELSE [Idle EXCEPT !.pc = "load", !.op = "add", !.user = u,
                       !.payload = payload, !.before = files,
                       !.date_str = ResolveDate(payload, now),
                       !.amount_val =
                           validate_amount_positive(payload.amount)[2],
                       !.desc = GetOrEmpty(payload.description),
                       !.method = GetOrEmpty(payload.payment_method),
                       !.tags = normalize_tags(payload.tags)]]
        /\ UNCHANGED <<now, files, log>>

\* the new_expense dict
NewExpense(c, eid) ==
    [id |-> eid, date |-> c.date_str, amount |-> c.amount_val,
     category |-> c.payload.category[2], description |-> c.desc,
     payment_method |-> c.method, tags |-> c.tags]

\* the entry put at the front: items.insert(0, new_expense)
PrependExpense(items, new_expense) == <<new_expense>> \o items

\* items.append(new_expense)
AppendExpense(items, new_expense) == Append(items, new_expense)

\* eid = generate_expense_id(); new_expense = {...}; items.append(new_expense)
AddGenerate(p) ==
    LET eid == generate_expense_id(now)
    IN  /\ proc[p].pc = "gen"
        /\ proc' = [proc EXCEPT ![p].pc = "save_open", ![p].eid = eid,
                       ![p].items = AppendExpense(proc[p].loaded,
                                                  NewExpense(proc[p], eid))]
        /\ UNCHANGED <<now, files, log>>

(***************************************************************************)
(* save_expenses                                                           *)
(***************************************************************************)
\* open(path, "w"): the file is truncated
SaveOpen(p) ==
    LET u == proc[p].user
    IN  /\ proc[p].pc = "save_open"
        /\ files' = [files EXCEPT ![u] = Truncated]
        /\ proc' = [proc EXCEPT ![p].pc = "save_dump"]
        /\ UNCHANGED <<now, log>>

\* json.dump({"expenses": items}, f) and close; add_expense returns eid
SaveDump(p) ==
    LET u == proc[p].user
    IN  /\ proc[p].pc = "save_dump"
        /\ files' = [files EXCEPT ![u] = DumpOver(files[u], proc[p].items)]
        /\ proc' = [proc EXCEPT ![p].pc = "returned",
                                ![p].idx = Len(log) + 1]
        /\ log' = Append(log, [user |-> u, eid |-> proc[p].eid,
                               entry |-> proc[p].items[Len(proc[p].items)]])
        /\ UNCHANGED now

\* the write fails or is interrupted after k entries: IOError
SaveFail(p, k) ==
    LET u == proc[p].user
    IN  /\ proc[p].pc = "save_dump"
        /\ k \in 0..(Len(proc[p].items) - 1)
        /\ files' = [files EXCEPT
                        ![u] = DumpPartial(files[u], proc[p].items, k)]
        /\ proc' = [proc EXCEPT ![p].pc = "raised", ![p].err = "IOError"]
        /\ UNCHANGED <<now, log>>

(***************************************************************************)
(* list_expenses                                                           *)
(***************************************************************************)
\* list_expenses is called
ListStart(p, u, filters) ==
    /\ proc[p].pc = "idle"
    /\ proc' = [proc EXCEPT ![p] =
                   [Idle EXCEPT !.pc = "load", !.op = "list", !.user = u,
                                !.filters = filters, !.before = files]]
    /\ UNCHANGED <<now, files, log>>

(***************************************************************************)
(* The caller and the clock                                                *)
(***************************************************************************)
\* the caller has the result, or the exception, of the call
Finish(p) ==
    /\ proc[p].pc \in {"returned", "raised"}
    /\ proc' = [proc EXCEPT ![p] = Idle]
    /\ UNCHANGED <<now, files, log>>

\* a microsecond passes
Tick ==
    /\ now < MaxClock
    /\ now' = now + 1
    /\ UNCHANGED <<files, proc, log>>

\* the steps inside a call
Step(p) ==
    \/ LoadAbsent(p)
    \/ LoadCreate(p)
    \/ LoadCreateDump(p)
    \/ LoadRead(p)
    \/ AddGenerate(p)
    \/ SaveOpen(p)
    \/ SaveDump(p)
    \/ \E k \in 0..MaxItems : SaveFail(p, k)
    \/ Finish(p)

\* the calls run one after the other, as section 5 of the specification
\* assumes: the one caller starts a call when its last call has ended
Next ==
    \/ \E u \in Users, payload \in Payloads : AddStart("p1", u, payload)
    \/ \E u \in Users, filters \in FilterInputs : ListStart("p1", u, filters)
    \/ Step("p1")
    \/ Tick

Spec == Init /\ [][Next]_vars

\* calls from two threads or processes for the same user, interleaved in
\* any way
ConcPayloads ==
    {BasePayload, FullPayload, [BasePayload EXCEPT !.amount = PyInt(0)]}

ConcNext ==
    \/ \E p \in Procs, payload \in ConcPayloads : AddStart(p, "u2", payload)
    \/ \E p \in Procs : ListStart(p, "u2", NoFilters)
    \/ \E p \in Procs : Step(p)
    \/ Tick

ConcSpec == Init /\ [][ConcNext]_vars

(***************************************************************************)
(* Properties                                                              *)
(***************************************************************************)
\* the collection load_expenses gives for a file: [] for a path that does
\* not exist, the entries of a complete document, none for a file that
\* does not parse
CollectionOf(f) ==
    IF ~f.exists THEN <<"ok", <<>>>>
    ELSE IF f.closed THEN <<"ok", f.items>>
    ELSE <<"unreadable", <<>>>>

\* the calls of add_expense for user u that returned, in return order
RECURSIVE LogOf(_, _)
LogOf(l, u) ==
    IF l = <<>> THEN <<>>
    ELSE IF Head(l).user = u THEN <<Head(l)>> \o LogOf(Tail(l), u)
    ELSE LogOf(Tail(l), u)

Count(seq, e) == Cardinality({i \in 1..Len(seq) : seq[i] = e})

Range(seq) == {seq[i] : i \in 1..Len(seq)}

\* C1: after any sequence of successful add_expense calls for one user,
\* the ids of the entries of the persisted collection are pairwise
\* different, and so are the ids the calls returned.
C1_IdsUnique ==
    \A u \in Users :
        /\ files[u].closed =>
              \A i, j \in 1..Len(files[u].items) :
                  i # j => files[u].items[i].id # files[u].items[j].id
        /\ \A i, j \in 1..Len(LogOf(log, u)) :
              i # j => LogOf(log, u)[i].eid # LogOf(log, u)[j].eid

\* the payload has an invalid date, a non-numeric or non-positive amount,
\* or a missing or blank category
C2_Rejected(payload) ==
    \/ payload.date \in BadDates
    \/ payload.amount \in BadAmounts
    \/ payload.category \in BadCategories

\* C2: a call of add_expense whose payload has an invalid date, a
\* non-numeric or non-positive amount, or a missing or blank category
\* raises, returns no id, and leaves every file as it was: nothing is
\* added, created or rewritten.
C2_ValidationFailureKeepsStore ==
    [][\A p \in Procs :
          (/\ proc[p].pc = "idle"
           /\ proc'[p].op = "add"
           /\ C2_Rejected(proc'[p].payload))
          => (/\ proc'[p].pc = "raised"
              /\ proc'[p].eid = <<>>
              /\ files' = files
              /\ log' = log)]_vars

\* an invalid payload was rejected for a user whose collection holds an entry
C2_Witness ==
    \E p \in Procs :
        /\ proc[p].pc = "raised" /\ proc[p].op = "add"
        /\ proc[p].err \in {"date", "amount", "category"}
        /\ C2_Rejected(proc[p].payload)
        /\ files[proc[p].user].closed
        /\ files[proc[p].user].items # <<>>
        /\ files = proc[p].before

\* C3: from the moment save_expenses has opened the file, whether it
\* completes or fails part-way, the user's document is the complete old
\* collection or the complete new collection.
C3_SaveAllOrNothing ==
    \A p \in Procs :
        (/\ proc[p].op = "add"
         /\ \/ proc[p].pc \in {"save_dump", "returned"}
            \/ proc[p].pc = "raised" /\ proc[p].err = "IOError")
        => (/\ files[proc[p].user].closed
            /\ files[proc[p].user].items \in {proc[p].loaded, proc[p].items})

\* C4: what list_expenses returns is sorted by (date, id) in descending
\* order: of two adjacent results a then b, a.date > b.date, or
\* a.date = b.date and a.id >= b.id, as strings.
C4_ListSortedDescending ==
    \A p \in Procs :
        (proc[p].op = "list" /\ proc[p].pc = "returned")
        => \A i \in 1..(Len(proc[p].items) - 1) :
              LET a == proc[p].items[i]
                  b == proc[p].items[i + 1]
              IN  \/ StrLt(b.date, a.date)
                  \/ a.date = b.date /\ ~StrLt(a.id, b.id)

\* a listing holds two entries of one date whose ids differ
C4_Witness ==
    \E p \in Procs :
        /\ proc[p].op = "list" /\ proc[p].pc = "returned"
        /\ \E i \in 1..(Len(proc[p].items) - 1) :
              /\ proc[p].items[i].date = proc[p].items[i + 1].date
              /\ proc[p].items[i].id # proc[p].items[i + 1].id

\* entry e satisfies every filter that is present
C5_Matches(e, filters) ==
    /\ IsNone(filters.from_date) \/ ~StrLt(e.date, filters.from_date[2])
    /\ IsNone(filters.to_date) \/ ~StrLt(filters.to_date[2], e.date)
    /\ IsNone(filters.category) \/ e.category = filters.category[2]

\* C5: list_expenses returns exactly the entries of the loaded collection,
\* which is the persisted one, that satisfy every filter that is present:
\* date >= from_date, date <= to_date (inclusive, as strings), category
\* equal to the filter; an absent filter constrains nothing.
C5_ListReturnsMatches ==
    \A p \in Procs :
        (proc[p].op = "list" /\ proc[p].pc = "returned")
        => /\ CollectionOf(proc[p].before[proc[p].user])
                = <<"ok", proc[p].loaded>>
           /\ \A e \in Range(proc[p].loaded) \cup Range(proc[p].items) :
                 Count(proc[p].items, e) =
                     IF C5_Matches(e, proc[p].filters)
                     THEN Count(proc[p].loaded, e) ELSE 0

\* a listing with a lower bound keeps an entry dated on the bound and
\* drops another entry
C5_Witness ==
    \E p \in Procs :
        /\ proc[p].op = "list" /\ proc[p].pc = "returned"
        /\ ~IsNone(proc[p].filters.from_date)
        /\ \E e \in Range(proc[p].items) :
              e.date = proc[p].filters.from_date[2]
        /\ Len(proc[p].items) < Len(proc[p].loaded)

\* C6: of two calls of add_expense for one user that both returned an id,
\* when both loaded before either saved, the persisted collection is what
\* the call that saved last loaded plus its own entry, and nothing of the
\* other call; when the second loaded after the first returned, both
\* entries are persisted.
C6_LostUpdateOrBoth ==
    \A p, q \in Procs :
        (/\ proc[p].op = "add" /\ proc[p].pc = "returned"
         /\ proc[q].op = "add" /\ proc[q].pc = "returned"
         /\ proc[p].user = proc[q].user
         /\ proc[p].idx < proc[q].idx)
        => LET f == files[proc[q].user]
           IN  IF proc[q].seen < proc[p].idx
               THEN /\ f.closed
                    /\ f.items = Append(proc[q].loaded,
                                        log[proc[q].idx].entry)
                    /\ Len(f.items) = Len(proc[p].loaded) + 1
               ELSE /\ f.closed
                    /\ f.items = Append(Append(proc[p].loaded,
                                               log[proc[p].idx].entry),
                                        log[proc[q].idx].entry)

\* C7: if a call of add_expense returns before another starts, the id of
\* the first is smaller, as a string, than the id of the second.
C7_IdOrderIsCreationOrder ==
    \A i, j \in 1..Len(log) : i < j => StrLt(log[i].eid, log[j].eid)

\* the dates of the clock's days and the valid payload date, "2024-01-16"
C8_RealDates ==
    {today_iso(n) : n \in 0..MaxClock}
        \cup {<<50, 48, 50, 52, 45, 48, 49, 45, 49, 54>>}

\* C8: every persisted entry is valid: its date is the payload's date, or
\* today's when none is given, and a real calendar date; its amount is a
\* number greater than 0; its category is not blank; its tags are
\* non-empty trimmed strings.
C8_PersistedEntriesValid ==
    \A u \in Users :
        \A e \in Range(files[u].items) :
            /\ e.date \in C8_RealDates
            /\ e.amount[1] = "num" /\ e.amount[2] > 0
            /\ e.category # <<>> /\ \E i \in 1..Len(e.category) :
                                       ~IsSpace(e.category[i])
            /\ \A i \in 1..Len(e.tags) :
                  /\ e.tags[i] # <<>>
                  /\ ~IsSpace(e.tags[i][1])
                  /\ ~IsSpace(e.tags[i][Len(e.tags[i])])

\* C9: when list_expenses has returned or raised, every user's collection
\* is the collection it was when the call started: same entries, same
\* order.
C9_ListKeepsStore ==
    \A p \in Procs :
        (proc[p].op = "list" /\ proc[p].pc \in {"returned", "raised"})
        => \A u \in Users :
              /\ CollectionOf(files[u]) = CollectionOf(proc[p].before[u])
              /\ ~files[u].closed /\ files[u].exists
                    => files[u] = proc[p].before[u]

\* a listing filtered and reordered a collection of two or more entries
C9_Witness ==
    \E p \in Procs :
        /\ proc[p].op = "list" /\ proc[p].pc = "returned"
        /\ Len(proc[p].loaded) >= 2
        /\ proc[p].items # <<>>
        /\ proc[p].items # SubSeq(proc[p].loaded, 1, Len(proc[p].items))
        /\ files[proc[p].user].items = proc[p].loaded

\* C10: when add_expense has returned, run without interleaving, the
\* user's collection is the collection from before the call followed by
\* one entry whose id is the id returned, and no other user's file has
\* changed; so the collection holds the entries of the calls that
\* returned, in call order.
C10_AddAppendsOne ==
    /\ \A p \in Procs :
          (proc[p].op = "add" /\ proc[p].pc = "returned")
          => LET u == proc[p].user
                 prior == CollectionOf(proc[p].before[u])
             IN  /\ prior[1] = "ok"
                 /\ files[u].closed
                 /\ Len(files[u].items) = Len(prior[2]) + 1
                 /\ SubSeq(files[u].items, 1, Len(prior[2])) = prior[2]
                 /\ files[u].items[Len(files[u].items)].id = proc[p].eid
                 /\ \A v \in Users \ {u} : files[v] = proc[p].before[v]
    /\ \A u \in Users :
          files[u].closed =>
              /\ Len(files[u].items) = Len(LogOf(log, u))
              /\ \A i \in 1..Len(files[u].items) :
                    /\ files[u].items[i] = LogOf(log, u)[i].entry
                    /\ files[u].items[i].id = LogOf(log, u)[i].eid

\* an entry was added after another one, while the other user has a
\* document of its own
C10_Witness ==
    \E p \in Procs :
        /\ proc[p].op = "add" /\ proc[p].pc = "returned"
        /\ Len(proc[p].loaded) >= 1
        /\ Len(files[proc[p].user].items) = 2
        /\ \A v \in Users \ {proc[p].user} : files[v].closed

=============================================================================
